---- MODULE Spec2Model ----
(***************************************************************************)
(* RenderPassTask (src/gpu/graphite/task/RenderPassTask.cpp): the factory  *)
(* Make, the preparation phase prepareResources and the emission phase     *)
(* addCommands, with the collaborators they call (TextureProxy, DrawPass,  *)
(* ScratchResourceManager, ResourceProvider, Caps, CommandBuffer) reduced  *)
(* to the results they return and a log of the calls made on them.         *)
(***************************************************************************)
EXTENDS Integers, Sequences, FiniteSets

VARIABLES
    pc,           \* driver position: start, constructed, null, prepared, done, failed, aborted
    passes,       \* Make argument: the DrawPassList
    desc,         \* Make argument: the RenderPassDesc
    target,       \* Make argument: sk_sp<TextureProxy> (NULL or TargetRef)
    proxy,        \* the TextureProxy object behind TargetRef
    task,         \* what Make returned: NoTask or the RenderPassTask's fields
    makeResult,   \* none | task | null | abort
    prepStatus,   \* none | kSuccess | kFail | abort
    cmdStatus,    \* none | kSuccess | kFail | abort
    calls,        \* every call made on a collaborator, in order
    notifyCount,  \* ScratchResourceManager: times notifyResourcesConsumed ran
    replayTranslation, \* CommandBuffer: current replay translation
    replayArg,    \* the ReplayTargetData passed to addCommands
    attachmentPool \* ResourceProvider: the discardable attachments it holds

vars == <<pc, passes, desc, target, proxy, task, makeResult, prepStatus,
          cmdStatus, calls, notifyCount, replayTranslation, replayArg,
          attachmentPool>>

----------------------------------------------------------------------------
(* Bounds and value sets *)

MaxPasses == 2

NULL == "nullptr"
TargetRef == "target"
NoTexture == "null_texture"
TargetTex == "TargetTex"
OtherTex == "OtherTex"
MSAATex == "MSAATex"
DSTex == "DSTex"
NoTranslation == [set |-> FALSE, offset |-> <<0, 0>>]

SampleCounts == {1, 4}
DimensionSet == {<<16, 16>>, <<32, 8>>}
Translations == {<<0, 0>>, <<5, 7>>}
CapsRules == {"exact", "square"}

InvalidInfo == [valid |-> FALSE, numSamples |-> 1]
TextureInfos == {InvalidInfo} \cup [valid : {TRUE}, numSamples : SampleCounts]
AttachmentDescs == [fTextureInfo : TextureInfos]
RenderPassDescs == [fColorAttachment : AttachmentDescs,
                    fColorResolveAttachment : [fTextureInfo : {InvalidInfo, [valid |-> TRUE, numSamples |-> 1]}],
                    fDepthStencilAttachment : AttachmentDescs,
                    fSampleCount : SampleCounts]
DrawPassLists == {[i \in 1..n |-> i] : n \in 0..MaxPasses}
Proxies == [lazy : BOOLEAN, texture : {NoTexture, TargetTex},
            dimensions : DimensionSet,
            textureInfo : [valid : {TRUE}, numSamples : SampleCounts]]
DefaultProxy == [lazy |-> FALSE, texture |-> NoTexture, dimensions |-> <<16, 16>>,
                 textureInfo |-> [valid |-> TRUE, numSamples |-> 1]]
NoTask == [fDrawPasses |-> <<>>, fRenderPassDesc |-> "none", fTarget |-> NULL]
ReplayTargetDatas == [fTarget : {NoTexture, TargetTex, OtherTex}, fTranslation : Translations]

Call(op, fn, args, ret) == [op |-> op, fn |-> fn, args |-> args, ret |-> ret]

----------------------------------------------------------------------------
(* SkASSERT: the assertion passes exactly when its condition holds; a      *)
(* failed assertion is fatal and ends the call that made it.               *)
SkASSERT(cond) == cond

(* Variant of the colour check that allows a single-sampled colour        *)
(* attachment in a multisampled pass only next to a resolve attachment.    *)
ColorAttachmentCheck_NeedsResolve(d) ==
    d.fColorAttachment.fTextureInfo.valid =>
        SkASSERT(d.fSampleCount = d.fColorAttachment.fTextureInfo.numSamples
                 \/ (1 = d.fColorAttachment.fTextureInfo.numSamples
                     /\ d.fColorResolveAttachment.fTextureInfo.valid))

(* Variant of the colour check that accepts single-sampled colour only.    *)
ColorAttachmentCheck_SingleSampleOnly(d) ==
    d.fColorAttachment.fTextureInfo.valid =>
        SkASSERT(1 = d.fColorAttachment.fTextureInfo.numSamples)

(* Make, colour attachment check: a valid colour attachment has the pass's *)
(* sample count or is single-sampled.                                      *)
ColorAttachmentCheck(d) ==
    d.fColorAttachment.fTextureInfo.valid =>
        SkASSERT(d.fSampleCount = d.fColorAttachment.fTextureInfo.numSamples
                 \/ 1 = d.fColorAttachment.fTextureInfo.numSamples)

(* Variant of the depth-stencil check that accepts every sample count.     *)
DepthStencilAttachmentCheck_Absent(d) == TRUE

(* Make, depth-stencil attachment check: a valid depth-stencil attachment  *)
(* has the pass's sample count.                                            *)
DepthStencilAttachmentCheck(d) ==
    d.fDepthStencilAttachment.fTextureInfo.valid =>
        SkASSERT(d.fSampleCount = d.fDepthStencilAttachment.fTextureInfo.numSamples)

(* Variant of Make without the test for an empty target.                   *)
Make_NoNullCheck(p, d, t) ==
    IF ~SkASSERT(Len(p) = 1) THEN [result |-> "abort", task |-> NoTask]
    ELSE IF ~ColorAttachmentCheck(d) THEN [result |-> "abort", task |-> NoTask]
    ELSE IF ~DepthStencilAttachmentCheck(d) THEN [result |-> "abort", task |-> NoTask]
    ELSE [result |-> "task",
          task |-> [fDrawPasses |-> p, fRenderPassDesc |-> d, fTarget |-> t]]

(* RenderPassTask::Make and the constructor it calls *)
Make(p, d, t) ==
    IF ~SkASSERT(Len(p) = 1) THEN [result |-> "abort", task |-> NoTask]
    ELSE IF t = NULL THEN [result |-> "null", task |-> NoTask]
    ELSE IF ~ColorAttachmentCheck(d) THEN [result |-> "abort", task |-> NoTask]
    ELSE IF ~DepthStencilAttachmentCheck(d) THEN [result |-> "abort", task |-> NoTask]
    ELSE [result |-> "task",
          task |-> [fDrawPasses |-> p, fRenderPassDesc |-> d, fTarget |-> t]]

----------------------------------------------------------------------------
(* TextureProxy::InstantiateIfNotLazy: a lazy proxy is left alone and the  *)
(* call reports success; an instantiated proxy is left alone; otherwise    *)
(* the proxy is instantiated, which the resource provider may fail to do.  *)
InstantiateIfNotLazy(px, instOk) ==
    IF px.lazy THEN [ret |-> TRUE, proxy |-> px, attempted |-> FALSE]
    ELSE IF px.texture # NoTexture THEN [ret |-> TRUE, proxy |-> px, attempted |-> FALSE]
    ELSE IF instOk THEN [ret |-> TRUE, proxy |-> [px EXCEPT !.texture = TargetTex],
                         attempted |-> TRUE]
    ELSE [ret |-> FALSE, proxy |-> px, attempted |-> TRUE]

(* Variant of the loop that does not stop at a failed batch.               *)
RECURSIVE PrepareDrawPasses_IgnoreFailure(_, _, _)
PrepareDrawPasses_IgnoreFailure(drawPasses, d, batchOk) ==
    IF drawPasses = <<>> THEN [ok |-> TRUE, calls |-> <<>>]
    ELSE LET dp == Head(drawPasses)
             c == Call("prepareResources", "DrawPass::prepareResources",
                       [drawPass |-> dp, desc |-> d], batchOk[dp])
             rest == PrepareDrawPasses_IgnoreFailure(Tail(drawPasses), d, batchOk)
         IN [ok |-> TRUE, calls |-> <<c>> \o rest.calls]

(* The loop over fDrawPasses in prepareResources: stops at the first       *)
(* DrawPass::prepareResources that returns false.                          *)
RECURSIVE PrepareDrawPasses(_, _, _)
PrepareDrawPasses(drawPasses, d, batchOk) ==
    IF drawPasses = <<>> THEN [ok |-> TRUE, calls |-> <<>>]
    ELSE LET dp == Head(drawPasses)
             c == Call("prepareResources", "DrawPass::prepareResources",
                       [drawPass |-> dp, desc |-> d], batchOk[dp])
         IN IF ~batchOk[dp] THEN [ok |-> FALSE, calls |-> <<c>>]
            ELSE LET rest == PrepareDrawPasses(Tail(drawPasses), d, batchOk)
                 IN [ok |-> rest.ok, calls |-> <<c>> \o rest.calls]

(* Variant of prepareResources that does not return when the target      *)
(* could not be instantiated.                                              *)
prepareResources_IgnoreInstantiate(t, px, instOk, batchOk) ==
    LET inst == InstantiateIfNotLazy(px, instOk)
        ic == Call("prepareResources", "InstantiateIfNotLazy",
                   [target |-> t.fTarget, attempted |-> inst.attempted], inst.ret)
        loop == PrepareDrawPasses(t.fDrawPasses, t.fRenderPassDesc, batchOk)
    IN IF ~loop.ok
       THEN [status |-> "kFail", calls |-> <<ic>> \o loop.calls,
             proxy |-> inst.proxy, notified |-> 0]
       ELSE [status |-> "kSuccess",
             calls |-> <<ic>> \o loop.calls \o
                       <<Call("prepareResources", "notifyResourcesConsumed", <<>>, TRUE)>>,
             proxy |-> inst.proxy, notified |-> 1]

(* Variant of prepareResources that notifies the scratch manager before    *)
(* the draw passes are prepared.                                           *)
prepareResources_NotifyFirst(t, px, instOk, batchOk) ==
    LET inst == InstantiateIfNotLazy(px, instOk)
        ic == Call("prepareResources", "InstantiateIfNotLazy",
                   [target |-> t.fTarget, attempted |-> inst.attempted], inst.ret)
        nc == Call("prepareResources", "notifyResourcesConsumed", <<>>, TRUE)
        loop == PrepareDrawPasses(t.fDrawPasses, t.fRenderPassDesc, batchOk)
    IN IF ~inst.ret
       THEN [status |-> "kFail", calls |-> <<ic>>, proxy |-> inst.proxy, notified |-> 0]
       ELSE [status |-> IF loop.ok THEN "kSuccess" ELSE "kFail",
             calls |-> <<ic, nc>> \o loop.calls,
             proxy |-> inst.proxy, notified |-> 1]

(* Variant of prepareResources that instantiates the target whether or    *)
(* not it is lazy.                                                         *)
prepareResources_AlwaysInstantiate(t, px, instOk, batchOk) ==
    LET forced == InstantiateIfNotLazy([px EXCEPT !.lazy = FALSE], instOk)
        inst == [forced EXCEPT !.proxy = [forced.proxy EXCEPT !.lazy = px.lazy]]
        ic == Call("prepareResources", "InstantiateIfNotLazy",
                   [target |-> t.fTarget, attempted |-> inst.attempted], inst.ret)
        loop == PrepareDrawPasses(t.fDrawPasses, t.fRenderPassDesc, batchOk)
    IN IF ~inst.ret
       THEN [status |-> "kFail", calls |-> <<ic>>, proxy |-> inst.proxy, notified |-> 0]
       ELSE IF ~loop.ok
       THEN [status |-> "kFail", calls |-> <<ic>> \o loop.calls,
             proxy |-> inst.proxy, notified |-> 0]
       ELSE [status |-> "kSuccess",
             calls |-> <<ic>> \o loop.calls \o
                       <<Call("prepareResources", "notifyResourcesConsumed", <<>>, TRUE)>>,
             proxy |-> inst.proxy, notified |-> 1]

(* RenderPassTask::prepareResources *)
prepareResources(t, px, instOk, batchOk) ==
    IF ~SkASSERT(t.fTarget # NULL)
    THEN [status |-> "abort", calls |-> <<>>, proxy |-> px, notified |-> 0]
    ELSE LET inst == InstantiateIfNotLazy(px, instOk)
             ic == Call("prepareResources", "InstantiateIfNotLazy",
                        [target |-> t.fTarget, attempted |-> inst.attempted], inst.ret)
         IN IF ~inst.ret
            THEN [status |-> "kFail", calls |-> <<ic>>, proxy |-> inst.proxy, notified |-> 0]
            ELSE IF ~SkASSERT(Len(t.fDrawPasses) = 1)
            THEN [status |-> "abort", calls |-> <<ic>>, proxy |-> inst.proxy, notified |-> 0]
            ELSE LET loop == PrepareDrawPasses(t.fDrawPasses, t.fRenderPassDesc, batchOk)
                 IN IF ~loop.ok
                    THEN [status |-> "kFail", calls |-> <<ic>> \o loop.calls,
                          proxy |-> inst.proxy, notified |-> 0]
                    ELSE [status |-> "kSuccess",
                          calls |-> <<ic>> \o loop.calls \o
                                    <<Call("prepareResources", "notifyResourcesConsumed",
                                           <<>>, TRUE)>>,
                          proxy |-> inst.proxy, notified |-> 1]

----------------------------------------------------------------------------
(* SkRect::Make(SkISize): the rectangle from the origin to the size.       *)
SkRectMake(dims) == [fLeft |-> 0, fTop |-> 0, fRight |-> dims[1], fBottom |-> dims[2]]

Max(a, b) == IF a >= b THEN a ELSE b

(* Caps::getDepthAttachmentDimensions: a rule of the backend's capability  *)
(* object, a function of the target's texture info and dimensions.         *)
getDepthAttachmentDimensions(caps, info, dims) ==
    IF caps = "exact" THEN dims
    ELSE <<Max(dims[1], dims[2]) * info.numSamples, Max(dims[1], dims[2]) * info.numSamples>>

(* Variant of the replay step that leaves the translation alone when the  *)
(* replay target is another texture.                                       *)
ReplayStep_NoClear(px, replayData) ==
    IF px.texture = replayData.fTarget
    THEN [calls |-> <<Call("addCommands", "setReplayTranslation",
                           replayData.fTranslation, TRUE)>>,
          translation |-> [set |-> TRUE, offset |-> replayData.fTranslation]]
    ELSE [calls |-> <<>>, translation |-> NoTranslation]

(* addCommands, replay step: set or clear the recorder's translation.      *)
ReplayStep(px, replayData) ==
    IF px.texture = replayData.fTarget
    THEN [calls |-> <<Call("addCommands", "setReplayTranslation",
                           replayData.fTranslation, TRUE)>>,
          translation |-> [set |-> TRUE, offset |-> replayData.fTranslation]]
    ELSE [calls |-> <<Call("addCommands", "clearReplayTranslation", <<>>, TRUE)>>,
          translation |-> NoTranslation]

(* Variant of the colour step that binds the target as the colour         *)
(* attachment and the multisample texture as the resolve attachment.       *)
ColorStep_Swapped(t, px, msaaRet) ==
    IF t.fRenderPassDesc.fColorResolveAttachment.fTextureInfo.valid
    THEN IF ~SkASSERT(px.textureInfo.numSamples = 1
                      /\ t.fRenderPassDesc.fColorAttachment.fTextureInfo.numSamples > 1)
         THEN [outcome |-> "abort", calls |-> <<>>,
               colorAttachment |-> NoTexture, resolveAttachment |-> NoTexture]
         ELSE LET c == Call("addCommands", "findOrCreateDiscardableMSAAAttachment",
                            [dimensions |-> px.dimensions,
                             textureInfo |-> t.fRenderPassDesc.fColorAttachment.fTextureInfo],
                            msaaRet)
              IN IF msaaRet = NoTexture
                 THEN [outcome |-> "kFail", calls |-> <<c>>,
                       colorAttachment |-> NoTexture, resolveAttachment |-> NoTexture]
                 ELSE [outcome |-> "ok", calls |-> <<c>>,
                       colorAttachment |-> px.texture, resolveAttachment |-> msaaRet]
    ELSE [outcome |-> "ok", calls |-> <<>>,
          colorAttachment |-> px.texture, resolveAttachment |-> NoTexture]

(* Variant of the colour step without the assertion on the resolve path.  *)
ColorStep_NoAssert(t, px, msaaRet) ==
    IF t.fRenderPassDesc.fColorResolveAttachment.fTextureInfo.valid
    THEN LET c == Call("addCommands", "findOrCreateDiscardableMSAAAttachment",
                       [dimensions |-> px.dimensions,
                        textureInfo |-> t.fRenderPassDesc.fColorAttachment.fTextureInfo],
                       msaaRet)
         IN IF msaaRet = NoTexture
            THEN [outcome |-> "kFail", calls |-> <<c>>,
                  colorAttachment |-> NoTexture, resolveAttachment |-> NoTexture]
            ELSE [outcome |-> "ok", calls |-> <<c>>,
                  colorAttachment |-> msaaRet, resolveAttachment |-> px.texture]
    ELSE [outcome |-> "ok", calls |-> <<>>,
          colorAttachment |-> px.texture, resolveAttachment |-> NoTexture]

(* addCommands, colour and resolve attachments.                            *)
ColorStep(t, px, msaaRet) ==
    IF t.fRenderPassDesc.fColorResolveAttachment.fTextureInfo.valid
    THEN IF ~SkASSERT(px.textureInfo.numSamples = 1
                      /\ t.fRenderPassDesc.fColorAttachment.fTextureInfo.numSamples > 1)
         THEN [outcome |-> "abort", calls |-> <<>>,
               colorAttachment |-> NoTexture, resolveAttachment |-> NoTexture]
         ELSE LET c == Call("addCommands", "findOrCreateDiscardableMSAAAttachment",
                            [dimensions |-> px.dimensions,
                             textureInfo |-> t.fRenderPassDesc.fColorAttachment.fTextureInfo],
                            msaaRet)
              IN IF msaaRet = NoTexture
                 THEN [outcome |-> "kFail", calls |-> <<c>>,
                       colorAttachment |-> NoTexture, resolveAttachment |-> NoTexture]
                 ELSE [outcome |-> "ok", calls |-> <<c>>,
                       colorAttachment |-> msaaRet, resolveAttachment |-> px.texture]
    ELSE [outcome |-> "ok", calls |-> <<>>,
          colorAttachment |-> px.texture, resolveAttachment |-> NoTexture]

(* Variant of the depth-stencil step that asks a second time when the     *)
(* first request fails.                                                    *)
DepthStencilStep_Retry(t, px, caps, dsRet) ==
    IF t.fRenderPassDesc.fDepthStencilAttachment.fTextureInfo.valid
    THEN LET dims == getDepthAttachmentDimensions(caps, px.textureInfo, px.dimensions)
             g == Call("addCommands", "getDepthAttachmentDimensions",
                       [textureInfo |-> px.textureInfo, dimensions |-> px.dimensions],
                       dims)
             c == Call("addCommands", "findOrCreateDepthStencilAttachment",
                       [dimensions |-> dims,
                        textureInfo |-> t.fRenderPassDesc.fDepthStencilAttachment.fTextureInfo],
                       dsRet)
         IN IF dsRet = NoTexture
            THEN [outcome |-> "kFail", calls |-> <<g, c, c>>,
                  depthStencilAttachment |-> NoTexture]
            ELSE [outcome |-> "ok", calls |-> <<g, c>>,
                  depthStencilAttachment |-> dsRet]
    ELSE [outcome |-> "ok", calls |-> <<>>, depthStencilAttachment |-> NoTexture]

(* Variant of the depth-stencil step that requests the target's own        *)
(* dimensions instead of the ones the capability rule gives.               *)
DepthStencilStep_TargetDimensions(t, px, caps, dsRet) ==
    IF t.fRenderPassDesc.fDepthStencilAttachment.fTextureInfo.valid
    THEN LET dims == getDepthAttachmentDimensions(caps, px.textureInfo, px.dimensions)
             g == Call("addCommands", "getDepthAttachmentDimensions",
                       [textureInfo |-> px.textureInfo, dimensions |-> px.dimensions],
                       dims)
             c == Call("addCommands", "findOrCreateDepthStencilAttachment",
                       [dimensions |-> px.dimensions,
                        textureInfo |-> t.fRenderPassDesc.fDepthStencilAttachment.fTextureInfo],
                       dsRet)
         IN IF dsRet = NoTexture
            THEN [outcome |-> "kFail", calls |-> <<g, c>>,
                  depthStencilAttachment |-> NoTexture]
            ELSE [outcome |-> "ok", calls |-> <<g, c>>,
                  depthStencilAttachment |-> dsRet]
    ELSE [outcome |-> "ok", calls |-> <<>>, depthStencilAttachment |-> NoTexture]

(* addCommands, depth-stencil attachment.                                  *)
DepthStencilStep(t, px, caps, dsRet) ==
    IF t.fRenderPassDesc.fDepthStencilAttachment.fTextureInfo.valid
    THEN IF ~SkASSERT(px.texture # NoTexture)
         THEN [outcome |-> "abort", calls |-> <<>>, depthStencilAttachment |-> NoTexture]
         ELSE LET dims == getDepthAttachmentDimensions(caps, px.textureInfo, px.dimensions)
                  g == Call("addCommands", "getDepthAttachmentDimensions",
                            [textureInfo |-> px.textureInfo, dimensions |-> px.dimensions],
                            dims)
                  c == Call("addCommands", "findOrCreateDepthStencilAttachment",
                            [dimensions |-> dims,
                             textureInfo |-> t.fRenderPassDesc.fDepthStencilAttachment.fTextureInfo],
                            dsRet)
              IN IF dsRet = NoTexture
                 THEN [outcome |-> "kFail", calls |-> <<g, c>>,
                       depthStencilAttachment |-> NoTexture]
                 ELSE [outcome |-> "ok", calls |-> <<g, c>>,
                       depthStencilAttachment |-> dsRet]
    ELSE [outcome |-> "ok", calls |-> <<>>, depthStencilAttachment |-> NoTexture]

(* Variant of the submission whose viewport has width and height swapped. *)
SubmitStep_SwappedViewport(t, px, color, ds, passOk) ==
    [status |-> IF passOk THEN "kSuccess" ELSE "kFail",
     calls |-> <<Call("addCommands", "addRenderPass",
                      [desc |-> t.fRenderPassDesc,
                       colorAttachment |-> color.colorAttachment,
                       resolveAttachment |-> color.resolveAttachment,
                       depthStencilAttachment |-> ds.depthStencilAttachment,
                       viewport |-> SkRectMake(<<px.dimensions[2], px.dimensions[1]>>),
                       drawPasses |-> t.fDrawPasses],
                      passOk)>>]

(* Variant of the submission that reports success whatever addRenderPass  *)
(* returned.                                                               *)
SubmitStep_AlwaysSuccess(t, px, color, ds, passOk) ==
    [status |-> "kSuccess",
     calls |-> <<Call("addCommands", "addRenderPass",
                      [desc |-> t.fRenderPassDesc,
                       colorAttachment |-> color.colorAttachment,
                       resolveAttachment |-> color.resolveAttachment,
                       depthStencilAttachment |-> ds.depthStencilAttachment,
                       viewport |-> SkRectMake(px.dimensions),
                       drawPasses |-> t.fDrawPasses],
                      passOk)>>]

(* addCommands, submission: the status is addRenderPass's result.          *)
SubmitStep(t, px, color, ds, passOk) ==
    [status |-> IF passOk THEN "kSuccess" ELSE "kFail",
     calls |-> <<Call("addCommands", "addRenderPass",
                      [desc |-> t.fRenderPassDesc,
                       colorAttachment |-> color.colorAttachment,
                       resolveAttachment |-> color.resolveAttachment,
                       depthStencilAttachment |-> ds.depthStencilAttachment,
                       viewport |-> SkRectMake(px.dimensions),
                       drawPasses |-> t.fDrawPasses],
                      passOk)>>]

(* ResourceProvider's find-or-create requests: a texture the provider     *)
(* hands out is in its pool afterwards, found there or created and added;  *)
(* a request that fails adds nothing.                                      *)
PoolAfter(pool, cs) ==
    pool \cup {cs[i].ret : i \in {j \in 1..Len(cs) :
                   /\ cs[j].fn \in {"findOrCreateDiscardableMSAAAttachment",
                                    "findOrCreateDepthStencilAttachment"}
                   /\ cs[j].ret # NoTexture}}

(* Variant of addCommands that goes on after the multisample colour       *)
(* attachment could not be obtained.                                       *)
addCommands_NoShortCircuit(t, px, oldTranslation, replayData, caps, msaaRet, dsRet, passOk) ==
    IF ~SkASSERT(t.fTarget # NULL /\ px.texture # NoTexture)
    THEN [status |-> "abort", calls |-> <<>>, translation |-> oldTranslation]
    ELSE LET replay == ReplayStep(px, replayData)
             color == ColorStep(t, px, msaaRet)
             ds == DepthStencilStep(t, px, caps, dsRet)
             submit == SubmitStep(t, px, color, ds, passOk)
         IN IF color.outcome = "abort"
            THEN [status |-> color.outcome, calls |-> replay.calls \o color.calls,
                  translation |-> replay.translation]
            ELSE IF ds.outcome # "ok"
            THEN [status |-> ds.outcome, calls |-> replay.calls \o color.calls \o ds.calls,
                  translation |-> replay.translation]
            ELSE [status |-> submit.status,
                  calls |-> replay.calls \o color.calls \o ds.calls \o submit.calls,
                  translation |-> replay.translation]

(* RenderPassTask::addCommands *)
addCommands(t, px, oldTranslation, replayData, caps, msaaRet, dsRet, passOk) ==
    IF ~SkASSERT(t.fTarget # NULL /\ px.texture # NoTexture)
    THEN [status |-> "abort", calls |-> <<>>, translation |-> oldTranslation]
    ELSE LET replay == ReplayStep(px, replayData)
             color == ColorStep(t, px, msaaRet)
             ds == DepthStencilStep(t, px, caps, dsRet)
             submit == SubmitStep(t, px, color, ds, passOk)
         IN IF color.outcome # "ok"
            THEN [status |-> color.outcome, calls |-> replay.calls \o color.calls,
                  translation |-> replay.translation]
            ELSE IF ds.outcome # "ok"
            THEN [status |-> ds.outcome, calls |-> replay.calls \o color.calls \o ds.calls,
                  translation |-> replay.translation]
            ELSE [status |-> submit.status,
                  calls |-> replay.calls \o color.calls \o ds.calls \o submit.calls,
                  translation |-> replay.translation]

Init ==
    /\ pc = "start"
    /\ passes \in DrawPassLists
    /\ desc \in RenderPassDescs
    /\ target \in {NULL, TargetRef}
    /\ proxy \in (IF target = NULL THEN {DefaultProxy} ELSE Proxies)
    /\ task = NoTask
    /\ makeResult = "none"
    /\ prepStatus = "none"
    /\ cmdStatus = "none"
    /\ calls = <<>>
    /\ notifyCount = 0
    /\ replayTranslation \in {NoTranslation} \cup [set : {TRUE}, offset : Translations]
    /\ replayArg = [fTarget |-> NoTexture, fTranslation |-> <<0, 0>>]
    /\ attachmentPool \in SUBSET {MSAATex, DSTex}

DoMake ==
    /\ pc = "start"
    /\ LET r == Make(passes, desc, target)
       IN /\ makeResult' = r.result
          /\ task' = r.task
          /\ pc' = CASE r.result = "task" -> "constructed"
                     [] r.result = "null" -> "null"
                     [] OTHER -> "aborted"
    /\ UNCHANGED <<passes, desc, target, proxy, prepStatus, cmdStatus, calls,
                   notifyCount, replayTranslation, replayArg, attachmentPool>>

(* Variant of the driver that prepares a task again after a failure.       *)
DriverMayPrepare_Retry ==
    \/ pc = "constructed"
    \/ (pc = "failed" /\ cmdStatus = "none" /\ Len(calls) <= 2)

(* The task-graph driver prepares a task once, after constructing it.      *)
DriverMayPrepare == pc = "constructed"

(* The task-graph driver emits a task's commands once, after a successful  *)
(* preparation; after a kFail it leaves the task alone.                    *)
DriverMayAddCommands == pc = "prepared"

DoPrepareResources ==
    /\ DriverMayPrepare
    /\ \E instOk \in BOOLEAN, batchOk \in [1..MaxPasses -> BOOLEAN] :
         LET r == prepareResources(task, proxy, instOk, batchOk)
         IN /\ prepStatus' = r.status
            /\ calls' = calls \o r.calls
            /\ proxy' = r.proxy
            /\ notifyCount' = notifyCount + r.notified
            /\ pc' = CASE r.status = "kSuccess" -> "prepared"
                       [] r.status = "kFail" -> "failed"
                       [] OTHER -> "aborted"
    /\ UNCHANGED <<passes, desc, target, task, makeResult, cmdStatus,
                   replayTranslation, replayArg, attachmentPool>>

(* Variant of addCommands that moves the draw passes out of the task when  *)
(* it hands them to addRenderPass.                                         *)
DoAddCommands_MovesDrawPasses ==
    /\ DriverMayAddCommands
    /\ \E replayData \in ReplayTargetDatas, caps \in CapsRules,
          msaaRet \in {NoTexture, MSAATex}, dsRet \in {NoTexture, DSTex},
          passOk \in BOOLEAN :
         LET r == addCommands(task, proxy, replayTranslation, replayData, caps,
                              msaaRet, dsRet, passOk)
             submitted == \E i \in 1..Len(r.calls) : r.calls[i].fn = "addRenderPass"
         IN /\ cmdStatus' = r.status
            /\ calls' = calls \o r.calls
            /\ replayTranslation' = r.translation
            /\ replayArg' = replayData
            /\ attachmentPool' = PoolAfter(attachmentPool, r.calls)
            /\ task' = IF submitted THEN [task EXCEPT !.fDrawPasses = <<>>] ELSE task
            /\ pc' = CASE r.status = "kSuccess" -> "done"
                       [] r.status = "kFail" -> "failed"
                       [] OTHER -> "aborted"
    /\ UNCHANGED <<passes, desc, target, proxy, makeResult, prepStatus, notifyCount>>

DoAddCommands ==
    /\ DriverMayAddCommands
    /\ \E replayData \in ReplayTargetDatas, caps \in CapsRules,
          msaaRet \in {NoTexture, MSAATex}, dsRet \in {NoTexture, DSTex},
          passOk \in BOOLEAN :
         LET r == addCommands(task, proxy, replayTranslation, replayData, caps,
                              msaaRet, dsRet, passOk)
         IN /\ cmdStatus' = r.status
            /\ calls' = calls \o r.calls
            /\ replayTranslation' = r.translation
            /\ replayArg' = replayData
            /\ attachmentPool' = PoolAfter(attachmentPool, r.calls)
            /\ pc' = CASE r.status = "kSuccess" -> "done"
                       [] r.status = "kFail" -> "failed"
                       [] OTHER -> "aborted"
    /\ UNCHANGED <<passes, desc, target, proxy, task, makeResult, prepStatus, notifyCount>>

Next == DoMake \/ DoPrepareResources \/ DoAddCommands

Spec == Init /\ [][Next]_vars
----------------------------------------------------------------------------
(* Reading the call log *)

CallsOf(op) == SelectSeq(calls, LAMBDA c : c.op = op)
CallsTo(fn) == SelectSeq(calls, LAMBDA c : c.fn = fn)
Count(fn) == Len(CallsTo(fn))
PrepReturned == prepStatus \in {"kSuccess", "kFail"}
CmdReturned == cmdStatus \in {"kSuccess", "kFail"}
BatchFailed == \E i \in 1..Len(calls) :
                   calls[i].fn = "DrawPass::prepareResources" /\ calls[i].ret = FALSE
InstFailed == \E i \in 1..Len(calls) :
                  calls[i].fn = "InstantiateIfNotLazy" /\ calls[i].ret = FALSE
InstSucceeded == \E i \in 1..Len(calls) :
                     calls[i].fn = "InstantiateIfNotLazy" /\ calls[i].ret = TRUE
AllBatchesSucceeded ==
    LET b == CallsTo("DrawPass::prepareResources")
    IN /\ Len(b) = Len(task.fDrawPasses)
       /\ \A i \in 1..Len(b) : b[i].ret = TRUE /\ b[i].args.drawPass = task.fDrawPasses[i]

(* C1: when a draw batch's prepareResources returned false, the task's     *)
(* prepareResources returned kFail and notifyResourcesConsumed was not     *)
(* called.                                                                 *)
C1_BatchFailureFails ==
    BatchFailed => /\ prepStatus = "kFail"
                   /\ Count("notifyResourcesConsumed") = 0
                   /\ notifyCount = 0
C1_Witness == BatchFailed /\ prepStatus = "kFail" /\ pc = "failed"

(* C2: when InstantiateIfNotLazy returned false (a non-lazy target that    *)
(* could not be instantiated), prepareResources returned kFail, no draw    *)
(* batch's prepareResources was invoked and the scratch tracker was not    *)
(* notified.                                                               *)
C2_InstantiateFailureFails ==
    InstFailed => /\ prepStatus = "kFail"
                  /\ ~proxy.lazy
                  /\ Count("DrawPass::prepareResources") = 0
                  /\ Count("notifyResourcesConsumed") = 0
                  /\ notifyCount = 0
C2_Witness == InstFailed /\ prepStatus = "kFail" /\ ~proxy.lazy /\ proxy.texture = NoTexture

(* C3: prepareResources returns kSuccess exactly when the instantiation    *)
(* step and every draw batch's preparation succeeded; then the scratch     *)
(* tracker was notified exactly once, as the last call of the phase; when  *)
(* it returns kFail the tracker was notified zero times.                   *)
C3_SuccessIffAllStepsSucceed ==
    PrepReturned =>
        LET p == CallsOf("prepareResources")
        IN /\ prepStatus = "kSuccess" <=> (InstSucceeded /\ AllBatchesSucceeded)
           /\ prepStatus = "kSuccess" =>
                  /\ Count("notifyResourcesConsumed") = 1
                  /\ notifyCount = 1
                  /\ p[Len(p)].fn = "notifyResourcesConsumed"
                  /\ Len(p) = 2 + Len(task.fDrawPasses)
           /\ prepStatus = "kFail" =>
                  /\ Count("notifyResourcesConsumed") = 0
                  /\ notifyCount = 0
C3_Witness == prepStatus = "kSuccess" /\ notifyCount = 1 /\ AllBatchesSucceeded
MakeReturned == makeResult # "none"
ColorInfo == desc.fColorAttachment.fTextureInfo
ResolveInfo == desc.fColorResolveAttachment.fTextureInfo
DepthStencilInfo == desc.fDepthStencilAttachment.fTextureInfo
DepthStencilMatches == DepthStencilInfo.valid => DepthStencilInfo.numSamples = desc.fSampleCount
SingleSampledColorNoResolve ==
    /\ ColorInfo.valid /\ ColorInfo.numSamples = 1
    /\ ~ResolveInfo.valid
    /\ desc.fSampleCount > 1

(* C4, as stated: whenever Make was called with an empty target, whatever  *)
(* the descriptor and the draw-batch list, it returned null and made no    *)
(* call on a collaborator.                                                 *)
C4_Original ==
    (MakeReturned /\ target = NULL) => (makeResult = "null" /\ calls = <<>>)

(* C4, amended: whenever Make was called with an empty target and exactly  *)
(* one draw batch, whatever the descriptor, it returned null, built no     *)
(* task and made no call on a collaborator.                                *)
C4_NullTargetOneBatch ==
    (MakeReturned /\ target = NULL /\ Len(passes) = 1) =>
        /\ makeResult = "null"
        /\ pc = "null"
        /\ task = NoTask
        /\ calls = <<>>
        /\ notifyCount = 0
        /\ proxy = DefaultProxy
C4_Witness == makeResult = "null" /\ target = NULL /\ Len(passes) = 1 /\ ColorInfo.valid

(* C5, as stated: a construction with a valid single-sampled colour        *)
(* descriptor, no resolve descriptor and a pass sample count above 1 never *)
(* gets a task from Make.                                                  *)
C5_Original ==
    (MakeReturned /\ SingleSampledColorNoResolve) => makeResult # "task"

(* C5, amended: such a construction passes Make's colour check: Make       *)
(* returns a task for it exactly when the target is non-empty, there is    *)
(* exactly one draw batch and the depth-stencil descriptor is invalid or   *)
(* has the pass sample count.                                              *)
C5_SingleSampledColorAccepted ==
    (MakeReturned /\ SingleSampledColorNoResolve) =>
        (makeResult = "task" <=>
             (target # NULL /\ Len(passes) = 1 /\ DepthStencilMatches))
C5_Witness == makeResult = "task" /\ SingleSampledColorNoResolve /\ pc = "constructed"

(* C6: a construction whose valid depth-stencil descriptor has a sample    *)
(* count other than the pass sample count gets no task from Make: the call *)
(* ends in an assertion failure (or, for an empty target with one batch,   *)
(* in null); every task Make returned with a valid depth-stencil           *)
(* descriptor has the pass sample count there.                             *)
C6_DepthStencilMismatchRejected ==
    MakeReturned =>
        /\ (DepthStencilInfo.valid /\ DepthStencilInfo.numSamples # desc.fSampleCount) =>
               \/ makeResult = "abort"
               \/ (makeResult = "null" /\ target = NULL /\ Len(passes) = 1)
        /\ (makeResult = "task"
                /\ task.fRenderPassDesc.fDepthStencilAttachment.fTextureInfo.valid) =>
               task.fRenderPassDesc.fDepthStencilAttachment.fTextureInfo.numSamples
                   = task.fRenderPassDesc.fSampleCount
C6_Witness ==
    /\ makeResult = "abort" /\ target # NULL /\ Len(passes) = 1
    /\ DepthStencilInfo.valid /\ DepthStencilInfo.numSamples = 1 /\ desc.fSampleCount = 4
    /\ ColorInfo.valid /\ ColorInfo.numSamples = 4

(* C7: a construction with a non-empty target, exactly one draw batch, a   *)
(* valid colour descriptor with the pass sample count and a depth-stencil  *)
(* descriptor that is invalid or has the pass sample count gets a task     *)
(* that holds that descriptor, that batch list and that target.            *)
C7_ValidConstructionSucceeds ==
    (/\ MakeReturned /\ target # NULL /\ Len(passes) = 1
     /\ ColorInfo.valid /\ ColorInfo.numSamples = desc.fSampleCount
     /\ DepthStencilMatches) =>
        /\ makeResult = "task"
        /\ task = [fDrawPasses |-> passes, fRenderPassDesc |-> desc, fTarget |-> target]
C7_Witness ==
    /\ makeResult = "task" /\ target = TargetRef /\ Len(passes) = 1
    /\ ColorInfo.valid /\ ColorInfo.numSamples = 4 /\ desc.fSampleCount = 4
    /\ DepthStencilInfo.valid /\ task.fRenderPassDesc = desc
PastEntryAssert == CmdReturned \/ (cmdStatus = "abort" /\ proxy.texture # NoTexture)
DepthStencilFailed ==
    \E i \in 1..Len(calls) : /\ calls[i].fn = "findOrCreateDepthStencilAttachment"
                             /\ calls[i].ret = NoTexture

(* C8: an addCommands call that returned, on a task whose resolve          *)
(* descriptor is valid, requested one discardable multisample attachment   *)
(* with the target's dimensions and the colour descriptor's texture info;  *)
(* a render pass it submitted has the target's texture as resolve          *)
(* attachment and the obtained texture, never the target's, as colour      *)
(* attachment.                                                             *)
C8_ResolvePathAttachments ==
    (CmdReturned /\ task.fRenderPassDesc.fColorResolveAttachment.fTextureInfo.valid) =>
        LET m == CallsTo("findOrCreateDiscardableMSAAAttachment")
            r == CallsTo("addRenderPass")
        IN /\ Len(m) = 1
           /\ m[1].args.dimensions = proxy.dimensions
           /\ m[1].args.textureInfo = task.fRenderPassDesc.fColorAttachment.fTextureInfo
           /\ cmdStatus = "kSuccess" => Len(r) = 1
           /\ \A i \in 1..Len(r) :
                  /\ r[i].args.resolveAttachment = proxy.texture
                  /\ r[i].args.resolveAttachment = TargetTex
                  /\ r[i].args.colorAttachment = m[1].ret
                  /\ r[i].args.colorAttachment # proxy.texture
C8_Witness ==
    /\ cmdStatus = "kSuccess"
    /\ task.fRenderPassDesc.fColorResolveAttachment.fTextureInfo.valid
    /\ Count("addRenderPass") = 1
    /\ Count("findOrCreateDiscardableMSAAAttachment") = 1
    /\ proxy.dimensions = <<32, 8>>

(* C9: an addCommands call that returned, on a task whose resolve          *)
(* descriptor is invalid, requested no discardable multisample attachment  *)
(* and, unless the depth-stencil attachment could not be obtained,         *)
(* submitted one render pass with the target's texture as colour           *)
(* attachment and no resolve attachment; in every submission the           *)
(* depth-stencil attachment is none exactly when the depth-stencil         *)
(* descriptor is invalid and the viewport is the rectangle from the origin *)
(* to the target's dimensions.                                             *)
C9_DirectPathAttachments ==
    CmdReturned =>
        LET r == CallsTo("addRenderPass")
            d == task.fRenderPassDesc
        IN /\ ~d.fColorResolveAttachment.fTextureInfo.valid =>
                  /\ Count("findOrCreateDiscardableMSAAAttachment") = 0
                  /\ Len(r) = (IF DepthStencilFailed THEN 0 ELSE 1)
                  /\ \A i \in 1..Len(r) :
                         /\ r[i].args.colorAttachment = proxy.texture
                         /\ r[i].args.colorAttachment = TargetTex
                         /\ r[i].args.resolveAttachment = NoTexture
           /\ \A i \in 1..Len(r) :
                  /\ (r[i].args.depthStencilAttachment = NoTexture)
                         <=> ~d.fDepthStencilAttachment.fTextureInfo.valid
                  /\ r[i].args.viewport = [fLeft |-> 0, fTop |-> 0,
                                           fRight |-> proxy.dimensions[1],
                                           fBottom |-> proxy.dimensions[2]]
C9_Witness ==
    /\ cmdStatus = "kSuccess"
    /\ ~task.fRenderPassDesc.fColorResolveAttachment.fTextureInfo.valid
    /\ ~task.fRenderPassDesc.fDepthStencilAttachment.fTextureInfo.valid
    /\ Count("addRenderPass") = 1
    /\ proxy.textureInfo.numSamples = 1
    /\ proxy.dimensions = <<32, 8>>

(* C10: an addCommands call that got past its entry assertion made exactly *)
(* one of setReplayTranslation / clearReplayTranslation, as its first call *)
(* on any collaborator: setReplayTranslation with the supplied offset when *)
(* the target's texture is the replay target, clearReplayTranslation       *)
(* otherwise; also when the call went on to return kFail.                  *)
C10_ReplayTranslationFirst ==
    PastEntryAssert =>
        LET c == CallsOf("addCommands")
        IN /\ Len(c) >= 1
           /\ Count("setReplayTranslation") + Count("clearReplayTranslation") = 1
           /\ IF proxy.texture = replayArg.fTarget
              THEN /\ c[1].fn = "setReplayTranslation"
                   /\ c[1].args = replayArg.fTranslation
                   /\ replayTranslation = [set |-> TRUE, offset |-> replayArg.fTranslation]
              ELSE /\ c[1].fn = "clearReplayTranslation"
                   /\ replayTranslation = NoTranslation
C10_Witness ==
    /\ cmdStatus = "kFail"
    /\ Count("setReplayTranslation") = 1
    /\ replayArg.fTranslation = <<5, 7>>
    /\ Count("findOrCreateDepthStencilAttachment") = 1

MSAAFailed ==
    \E i \in 1..Len(calls) : /\ calls[i].fn = "findOrCreateDiscardableMSAAAttachment"
                             /\ calls[i].ret = NoTexture

(* C11: an addCommands call that returned and obtained every attachment it *)
(* needed called addRenderPass exactly once, and returned kSuccess exactly *)
(* when addRenderPass returned true (kFail exactly when it returned        *)
(* false).                                                                 *)
C11_StatusIsAddRenderPassResult ==
    (CmdReturned /\ ~MSAAFailed /\ ~DepthStencilFailed) =>
        LET r == CallsTo("addRenderPass")
        IN /\ Len(r) = 1
           /\ cmdStatus = "kSuccess" <=> r[1].ret = TRUE
           /\ cmdStatus = "kFail" <=> r[1].ret = FALSE
C11_Witness ==
    /\ cmdStatus = "kFail" /\ ~MSAAFailed /\ ~DepthStencilFailed
    /\ Count("addRenderPass") = 1
    /\ Count("findOrCreateDepthStencilAttachment") = 1
    /\ Count("findOrCreateDiscardableMSAAAttachment") = 1

C13_NoInstantiationWhenLazyOrInstantiated ==
    [][(pc = "constructed" /\ (proxy.lazy \/ proxy.texture # NoTexture)) =>
           /\ proxy' = proxy
           /\ prepStatus' \in {"kSuccess", "kFail"}
           /\ Len(calls') >= 2
           /\ calls'[1].fn = "InstantiateIfNotLazy"
           /\ calls'[1].args.attempted = FALSE
           /\ calls'[1].ret = TRUE
           /\ calls'[2].fn = "DrawPass::prepareResources"]_vars
C13_Witness ==
    /\ prepStatus = "kSuccess" /\ proxy.lazy /\ proxy.texture = NoTexture
    /\ Count("DrawPass::prepareResources") = 1
    /\ cmdStatus = "none"

RecorderFns == {"setReplayTranslation", "clearReplayTranslation", "addRenderPass"}
ProviderFns == {"findOrCreateDiscardableMSAAAttachment",
                "findOrCreateDepthStencilAttachment"}
NewCallFns == {calls'[i].fn : i \in (Len(calls) + 1)..Len(calls')}
PrepareLeavesTaskAndRecorder ==
    pc = "constructed" =>
        /\ task' = task
        /\ replayTranslation' = replayTranslation
        /\ NewCallFns \cap RecorderFns = {}
        /\ \A i \in 1..Len(calls') : calls'[i].op = "prepareResources"

(* C14, as stated: prepareResources and addCommands leave the task's       *)
(* fields unchanged, prepareResources makes no call on the command         *)
(* recorder, and addCommands changes the state of no collaborator other    *)
(* than the command recorder.                                              *)
C14_Original ==
    [][/\ PrepareLeavesTaskAndRecorder
       /\ pc = "prepared" =>
              /\ task' = task
              /\ notifyCount' = notifyCount
              /\ proxy' = proxy
              /\ attachmentPool' = attachmentPool]_vars

(* C14, amended: prepareResources and addCommands leave the task's fields  *)
(* unchanged and prepareResources makes no call on the command recorder;   *)
(* addCommands changes the command recorder and, through its               *)
(* find-or-create requests, the resource provider's pool, which only gains *)
(* the attachments those requests returned; it does not notify the scratch *)
(* tracker and leaves the target as it was.                                *)
C14_FrameOfBothPhases ==
    [][/\ PrepareLeavesTaskAndRecorder
       /\ pc = "prepared" =>
              /\ task' = task
              /\ notifyCount' = notifyCount
              /\ proxy' = proxy
              /\ NewCallFns \subseteq
                     RecorderFns \cup ProviderFns \cup {"getDepthAttachmentDimensions"}
              /\ attachmentPool \subseteq attachmentPool'
              /\ \A x \in attachmentPool' \ attachmentPool :
                     \E i \in (Len(calls) + 1)..Len(calls') :
                         calls'[i].fn \in ProviderFns /\ calls'[i].ret = x]_vars
C14_Witness ==
    /\ cmdStatus = "kSuccess" /\ notifyCount = 1
    /\ Count("addRenderPass") = 1
    /\ Count("findOrCreateDepthStencilAttachment") = 1
    /\ task.fDrawPasses = passes /\ task.fRenderPassDesc = desc
    /\ DSTex \in attachmentPool

(* C15: when the discardable multisample colour attachment could not be    *)
(* obtained, addCommands returned kFail, requested no depth-stencil        *)
(* attachment and did not call addRenderPass; when the depth-stencil       *)
(* attachment could not be obtained, addCommands returned kFail and did    *)
(* not call addRenderPass; the failed request is the call's last.          *)
C15_AttachmentFailureShortCircuits ==
    /\ MSAAFailed =>
           /\ cmdStatus = "kFail"
           /\ Count("getDepthAttachmentDimensions") = 0
           /\ Count("findOrCreateDepthStencilAttachment") = 0
           /\ Count("addRenderPass") = 0
           /\ calls[Len(calls)].fn = "findOrCreateDiscardableMSAAAttachment"
    /\ DepthStencilFailed =>
           /\ cmdStatus = "kFail"
           /\ Count("addRenderPass") = 0
           /\ calls[Len(calls)].fn = "findOrCreateDepthStencilAttachment"
C15_Witness ==
    /\ MSAAFailed /\ cmdStatus = "kFail"
    /\ task.fRenderPassDesc.fDepthStencilAttachment.fTextureInfo.valid
    /\ Count("addRenderPass") = 0

(* C16, as stated: whenever prepareResources has returned kSuccess the     *)
(* target is instantiated, lazy targets included.                          *)
C16_Original == prepStatus = "kSuccess" => proxy.texture # NoTexture

(* C16, amended: for a target that is not lazy, whenever prepareResources  *)
(* has returned kSuccess the target is instantiated and an addCommands     *)
(* that follows gets past its entry assertion; an addCommands that fails   *)
(* its entry assertion after a successful prepareResources has a lazy      *)
(* target that nobody instantiated.                                        *)
C16_NonLazyInstantiatedAfterSuccess ==
    prepStatus = "kSuccess" =>
        /\ ~proxy.lazy =>
               /\ proxy.texture = TargetTex
               /\ cmdStatus # "none" => PastEntryAssert
        /\ (cmdStatus = "abort" /\ proxy.texture = NoTexture) => proxy.lazy
C16_Witness ==
    /\ prepStatus = "kSuccess" /\ ~proxy.lazy /\ CmdReturned
    /\ calls[1].fn = "InstantiateIfNotLazy" /\ calls[1].args.attempted = TRUE

ResolvePathAssertion ==
    /\ proxy.textureInfo.numSamples = 1
    /\ task.fRenderPassDesc.fColorAttachment.fTextureInfo.numSamples > 1

(* C17, as stated: every task Make returned with a valid resolve           *)
(* descriptor has a single-sampled target and a multisampled colour        *)
(* descriptor.                                                             *)
C17_Original ==
    (makeResult = "task" /\ task.fRenderPassDesc.fColorResolveAttachment.fTextureInfo.valid)
        => ResolvePathAssertion

(* C17, amended: Make's checks do not establish the resolve-path           *)
(* assertion; addCommands' own assertion does: a call on a task with a     *)
(* valid resolve descriptor returned a Status only with a single-sampled   *)
(* target and a multisampled colour descriptor (which then has the pass    *)
(* sample count), and a call that got past the entry assertion and ended   *)
(* in an assertion failure had a valid resolve descriptor without them and *)
(* made the replay call only.                                              *)
C17_ResolveAssertionEnforcedByAddCommands ==
    /\ (CmdReturned /\ task.fRenderPassDesc.fColorResolveAttachment.fTextureInfo.valid) =>
           /\ ResolvePathAssertion
           /\ task.fRenderPassDesc.fColorAttachment.fTextureInfo.valid
           /\ task.fRenderPassDesc.fColorAttachment.fTextureInfo.numSamples
                  = task.fRenderPassDesc.fSampleCount
    /\ (cmdStatus = "abort" /\ proxy.texture # NoTexture) =>
           /\ task.fRenderPassDesc.fColorResolveAttachment.fTextureInfo.valid
           /\ ~ResolvePathAssertion
           /\ Len(CallsOf("addCommands")) = 1
           /\ Count("findOrCreateDiscardableMSAAAttachment") = 0
           /\ Count("addRenderPass") = 0
C17_Witness ==
    /\ cmdStatus = "abort" /\ proxy.texture # NoTexture
    /\ task.fRenderPassDesc.fColorResolveAttachment.fTextureInfo.valid
    /\ proxy.textureInfo.numSamples = 4
    /\ task.fRenderPassDesc.fColorAttachment.fTextureInfo.numSamples = 4

StatusOf(op) == IF op = "prepareResources" THEN prepStatus ELSE cmdStatus
CallFailed(c) ==
    \/ (c.fn \in {"InstantiateIfNotLazy", "DrawPass::prepareResources", "addRenderPass"}
            /\ c.ret = FALSE)
    \/ (c.fn \in ProviderFns /\ c.ret = NoTexture)

(* C18: within one prepareResources call the instantiation step and each   *)
(* draw batch's prepareResources ran at most once, and within one          *)
(* addCommands call each of the two find-or-create requests and            *)
(* addRenderPass ran at most once; a step that failed is the last call of  *)
(* its phase and the phase returned kFail.                                 *)
C18_NoRetry ==
    /\ Count("InstantiateIfNotLazy") <= 1
    /\ \A dp \in 1..(MaxPasses + 1) :
           Len(SelectSeq(calls, LAMBDA c : c.fn = "DrawPass::prepareResources"
                                           /\ c.args.drawPass = dp)) <= 1
    /\ Count("findOrCreateDiscardableMSAAAttachment") <= 1
    /\ Count("findOrCreateDepthStencilAttachment") <= 1
    /\ Count("addRenderPass") <= 1
    /\ \A i \in 1..Len(calls) :
           CallFailed(calls[i]) =>
               /\ StatusOf(calls[i].op) = "kFail"
               /\ \A j \in (i + 1)..Len(calls) : calls[j].op # calls[i].op
C18_Witness ==
    /\ DepthStencilFailed /\ cmdStatus = "kFail"
    /\ Count("findOrCreateDepthStencilAttachment") = 1
    /\ Count("findOrCreateDiscardableMSAAAttachment") = 1
    /\ Count("InstantiateIfNotLazy") = 1

(* C19: an addCommands call on a task whose depth-stencil descriptor is    *)
(* valid requests the depth-stencil attachment once, after the colour and  *)
(* resolve attachments are settled (not at all when the multisample colour *)
(* attachment could not be obtained), with the dimensions that             *)
(* getDepthAttachmentDimensions returned for the target's texture info and *)
(* dimensions and with the depth-stencil descriptor's texture info; with   *)
(* an invalid descriptor it requests none.                                 *)
C19_DepthStencilRequest ==
    cmdStatus # "none" =>
        LET d == task.fRenderPassDesc
            isDS(k) == calls[k].fn = "findOrCreateDepthStencilAttachment"
            requests == {k \in 1..Len(calls) : isDS(k)}
        IN /\ ~d.fDepthStencilAttachment.fTextureInfo.valid =>
                  /\ requests = {}
                  /\ Count("getDepthAttachmentDimensions") = 0
           /\ (CmdReturned /\ d.fDepthStencilAttachment.fTextureInfo.valid) =>
                  Cardinality(requests) = (IF MSAAFailed THEN 0 ELSE 1)
           /\ \A k \in requests :
                  /\ d.fDepthStencilAttachment.fTextureInfo.valid
                  /\ calls[k].args.textureInfo = d.fDepthStencilAttachment.fTextureInfo
                  /\ k > 1
                  /\ calls[k - 1].fn = "getDepthAttachmentDimensions"
                  /\ calls[k - 1].args = [textureInfo |-> proxy.textureInfo,
                                          dimensions |-> proxy.dimensions]
                  /\ calls[k].args.dimensions = calls[k - 1].ret
                  /\ \A j \in 1..Len(calls) :
                         calls[j].fn \in {"findOrCreateDiscardableMSAAAttachment",
                                          "setReplayTranslation",
                                          "clearReplayTranslation"} => j < k
                  /\ d.fColorResolveAttachment.fTextureInfo.valid =>
                         \E j \in 1..(k - 1) :
                             /\ calls[j].fn = "findOrCreateDiscardableMSAAAttachment"
                             /\ calls[j].ret = MSAATex
                  /\ \A j \in 1..(k - 1) : calls[j].fn # "addRenderPass"
C19_Witness ==
    /\ cmdStatus = "kSuccess"
    /\ task.fRenderPassDesc.fDepthStencilAttachment.fTextureInfo.valid
    /\ task.fRenderPassDesc.fColorResolveAttachment.fTextureInfo.valid
    /\ \E k \in 1..Len(calls) :
           /\ calls[k].fn = "findOrCreateDepthStencilAttachment"
           /\ calls[k].args.dimensions # proxy.dimensions
====
